---- MODULE Spec2Model ----
(***************************************************************************)
(* A model of the memshell console (src/memshell.cpp): one resizable byte  *)
(* buffer, a file table kept as a vector of entries addressed by position, *)
(* a first-fit allocator over the buffer, and the console commands that    *)
(* act on them.  Table positions are 0-based as in the code; the TLA+      *)
(* sequence holding the table is 1-based, so entry i is fileTable[i + 1].  *)
(*                                                                         *)
(* size_t arithmetic is modelled modulo Word = 2^WordBits.  The buffer     *)
(* sizes, dataStart and the word width are scaled down together so that    *)
(* the relations the code depends on stay as they are on the real machine: *)
(* every offset and every content length is far below the word size, and   *)
(* an unsigned subtraction that goes below zero wraps to a value larger    *)
(* than any content length.                                                *)
(***************************************************************************)
EXTENDS Integers, Sequences, FiniteSets, TLC

\* ---------------------------------------------------------------- bounds
\* Width of size_t in the model (64 in the build).
WordBits == 5
\* Largest buffer size a resize may ask for; also the initial size.
MaxCap == 3
\* dataStart, scaled (1024 * 1024 in the code).
DataStart == 1
\* Longest content of a write command.
MaxLen == 2
\* Largest number of entries of the file table, the root included.
MaxEntries == 3
\* Width of int in the model (32 in the build): wide enough for the values
\* poke is given to exceed a byte.
IntBits == 10

Word == 2 ^ WordBits
SIZE_MAX == Word - 1
INT_MAX == 2 ^ (IntBits - 1) - 1
INT_MIN == 0 - 2 ^ (IntBits - 1)

\* ---------------------------------------------------------------- inputs
\* Names typed after mkdir / touch / write / cat / rm / cd.  The empty name
\* is what `iss >> name` leaves when the command has no argument.
Names == {"", "a", "b"}
\* The contents typed after write <name>: one string of every length up to
\* MaxLen (the empty one is a write command without content), made of the
\* bytes 1 and 2 so that strings of different lengths start differently.
Content(n) == [i \in 1..n |-> ((n + i) % 2) + 1]
Contents == {Content(n) : n \in 0..MaxLen}
\* Values typed after poke <offset>: one an int holds and one below the
\* least int.
PokeValues == {257, INT_MIN - 1}
\* Offsets typed after peek and poke: every offset up to the largest buffer
\* size, and one number too large for size_t.
Offsets == (0..MaxCap) \cup {Word}
\* What a read outside an allocation may return.
GarbageBytes == {0, 255}
GarbageIndex == 0..MaxEntries

VARIABLES
    memory,      \* the buffer: a sequence of memorySize bytes (byte i is memory[i+1])
    memorySize,  \* its length as the program records it
    fileTable,   \* the vector of FileEntry
    currentDir,  \* table position of the current directory
    status,      \* "running", "exited" (exit command), "crashed", "hung"
    out          \* what the last command printed

vars == <<memory, memorySize, fileTable, currentDir, status, out>>

\* ------------------------------------------------------------ arithmetic
Add(a, b) == (a + b) % Word
Sub(a, b) == (a - b + Word) % Word
Min(a, b) == IF a < b THEN a ELSE b

\* ------------------------------------------------------------- the table
FileEntry(n, o, s, d, p) ==
    [name |-> n, offset |-> o, size |-> s, isDirectory |-> d, parent |-> p]

\* fileTable[i] of the code, for a position inside the vector.
At(t, i) == t[i + 1]
InTable(t, i) == i >= 0 /\ i < Len(t)
Positions(t) == 0..(Len(t) - 1)

\* An erase that drops the last entry, whatever position it is given.
EraseLast(t, i) == SubSeq(t, 1, Len(t) - 1)

\* fileTable.erase(fileTable.begin() + i)
Erase(t, i) == SubSeq(t, 1, i) \o SubSeq(t, i + 2, Len(t))

\* A lookup by name alone, whatever directory the entry is in.
findFileAnyParent(t, name, parentDir) ==
    LET hits == {i \in Positions(t) : At(t, i).name = name}
    IN  IF hits = {} THEN SIZE_MAX
        ELSE CHOOSE i \in hits : \A j \in hits : i <= j

findFile(t, name, parentDir) ==
    LET hits == {i \in Positions(t) :
                    At(t, i).name = name /\ At(t, i).parent = parentDir}
    IN  IF hits = {} THEN SIZE_MAX
        ELSE CHOOSE i \in hits : \A j \in hits : i <= j

Out(m, d) == [msg |-> m, data |-> d]

dataStart == DataStart

InitialSize == MaxCap

Zeros(n) == [i \in 1..n |-> 0]

Init ==
    /\ memory = Zeros(InitialSize)
    /\ memorySize = InitialSize
    /\ fileTable = <<FileEntry("", 0, 0, TRUE, 0)>>
    /\ currentDir = 0
    /\ status = "running"
    /\ out = Out("start", <<>>)


\* ---------------------------------------------------------- the allocator
\* std::pair's operator<, which std::sort uses.
PairLess(p, q) == p[1] < q[1] \/ (p[1] = q[1] /\ p[2] < q[2])

RECURSIVE InsertSorted(_, _)
InsertSorted(s, p) ==
    IF s = <<>> THEN <<p>>
    ELSE IF PairLess(p, Head(s)) THEN <<p>> \o s
    ELSE <<Head(s)>> \o InsertSorted(Tail(s), p)

RECURSIVE SortRanges(_)
SortRanges(s) ==
    IF s = <<>> THEN <<>> ELSE InsertSorted(SortRanges(Tail(s)), Head(s))

\* The first loop of findFreeSpace: one pair per file entry with size > 0,
\* in table order.
RECURSIVE UsedRanges(_)
UsedRanges(t) ==
    IF t = <<>> THEN <<>>
    ELSE LET file == Head(t)
         IN  (IF ~file.isDirectory /\ file.size > 0
              THEN <<<<file.offset, Add(file.offset, file.size)>>>>
              ELSE <<>>) \o UsedRanges(Tail(t))

\* The second loop and the final test, from element k of the sorted ranges.
RECURSIVE ScanGaps(_, _, _, _, _)
ScanGaps(ranges, k, current, size, cap) ==
    IF k > Len(ranges)
    THEN IF Sub(cap, current) >= size THEN current ELSE SIZE_MAX
    ELSE IF Sub(ranges[k][1], current) >= size
         THEN current
         ELSE ScanGaps(ranges, k + 1, ranges[k][2], size, cap)

\* The allocator without its std::sort: the gaps are scanned in table order.
findFreeSpaceUnsorted(t, cap, size) ==
    ScanGaps(UsedRanges(t), 1, dataStart, size, cap)

findFreeSpace(t, cap, size) ==
    ScanGaps(SortRanges(UsedRanges(t)), 1, dataStart, size, cap)

\* ------------------------------------------------------------- the buffer
\* std::copy(content.begin(), content.end(), memory.get() + offset), for the
\* bytes that land inside the buffer.
CopyInto(mem, offset, content) ==
    [i \in 1..Len(mem) |->
        IF i - 1 >= offset /\ i - 1 < offset + Len(content)
        THEN content[i - offset] ELSE mem[i]]

\* Does [offset, offset + len) leave the buffer of cap bytes?
OutOfBuffer(offset, len, cap) == len > 0 /\ offset + len > cap

\* A resize whose copy stops one byte short.
NewBufferShort(mem, oldSize, newSize) ==
    LET copySize == Min(oldSize, newSize) - 1
    IN  [i \in 1..newSize |-> IF i <= copySize THEN mem[i] ELSE 0]

\* The body of the try block of reallocateMemory when the allocation
\* succeeds: a zero-filled buffer with the old prefix copied in.
NewBuffer(mem, oldSize, newSize) ==
    LET copySize == Min(oldSize, newSize)
    IN  [i \in 1..newSize |-> IF i <= copySize THEN mem[i] ELSE 0]

\* iss >> value for an int: a number outside the range of int is stored as
\* the nearest bound of the range.
ReadInt(typed) ==
    IF typed > INT_MAX THEN INT_MAX
    ELSE IF typed < INT_MIN THEN INT_MIN
    ELSE typed

\* iss >> offset for a size_t: a number above SIZE_MAX is stored as SIZE_MAX.
ReadSize(typed) == IF typed > SIZE_MAX THEN SIZE_MAX ELSE typed

\* static_cast<uint8_t>(value)
ToByte(value) == value % 256

\* parseSize: a number followed by an optional unit.
Multiplier(unit) ==
    IF unit \in {"KB", "K"} THEN 1024
    ELSE IF unit \in {"MB", "M"} THEN 1024 * 1024
    ELSE IF unit \in {"GB", "G"} THEN 1024 * 1024 * 1024
    ELSE IF unit \in {"TB", "T"} THEN 1024 * 1024 * 1024 * 1024
    ELSE 1
parseSize(sizeStr) == (sizeStr.value * Multiplier(sizeStr.unit)) % Word

\* Size arguments of resize: plain byte counts, and zero with a unit.
SizeStrings ==
    [value : 0..MaxCap, unit : {""}] \cup [value : {0}, unit : {"KB"}]

\* ------------------------------------------------------------ the commands
\* Every command is read by run() only while `running` holds and the process
\* is alive.
Running == status = "running"

\* A step whose behaviour the language leaves undefined may end the process.
Crash(command) ==
    /\ status' = "crashed"
    /\ out' = Out("crashed", <<command>>)

Mkdir(name, limit) ==
    /\ Running
    /\ IF findFile(fileTable, name, currentDir) = SIZE_MAX
       THEN /\ Len(fileTable) < limit
            /\ fileTable' = Append(fileTable, FileEntry(name, 0, 0, TRUE, currentDir))
            /\ out' = Out("Directory created", <<>>)
       ELSE /\ out' = Out("Name already exists", <<>>)
            /\ UNCHANGED fileTable
    /\ UNCHANGED <<memory, memorySize, currentDir, status>>

\* touch without the lookup: the entry is appended whatever the table holds.
TouchUnchecked(name, limit) ==
    /\ Running
    /\ Len(fileTable) < limit
    /\ fileTable' = Append(fileTable, FileEntry(name, 0, 0, FALSE, currentDir))
    /\ out' = Out("File created", <<>>)
    /\ UNCHANGED <<memory, memorySize, currentDir, status>>

Touch(name, limit) ==
    /\ Running
    /\ IF findFile(fileTable, name, currentDir) = SIZE_MAX
       THEN /\ Len(fileTable) < limit
            /\ fileTable' = Append(fileTable, FileEntry(name, 0, 0, FALSE, currentDir))
            /\ out' = Out("File created", <<>>)
       ELSE /\ out' = Out("File already exists", <<>>)
            /\ UNCHANGED fileTable
    /\ UNCHANGED <<memory, memorySize, currentDir, status>>

\* The line write <name> <content> prints when it returns, in a state.
WriteReport(t, cap, dir, name, content) ==
    LET fileIndex == findFile(t, name, dir)
    IN  IF fileIndex # SIZE_MAX /\ ~At(t, fileIndex).isDirectory
        THEN IF findFreeSpace(t, cap, Len(content)) # SIZE_MAX
             THEN "Content written"
             ELSE "Not enough space"
        ELSE "File not found or is a directory"

\* A write that gives up the file's old range before it allocates.
WriteTruncating(name, content) ==
    LET fileIndex == findFile(fileTable, name, currentDir)
        length    == Len(content)
        offset    == findFreeSpace(fileTable, memorySize, length)
        report    == WriteReport(fileTable, memorySize, currentDir, name, content)
    IN
    /\ Running
    /\ IF report = "Content written"
       THEN \/ /\ memory' = CopyInto(memory, offset, content)
               /\ fileTable' = [fileTable EXCEPT
                                  ![fileIndex + 1].offset = offset,
                                  ![fileIndex + 1].size = length]
               /\ out' = Out(report, <<>>)
               /\ UNCHANGED status
            \/ /\ OutOfBuffer(offset, length, memorySize)
               /\ memory' \in {memory, CopyInto(memory, offset, content)}
               /\ Crash("write")
               /\ UNCHANGED fileTable
       ELSE /\ out' = Out(report, <<>>)
            /\ fileTable' = IF report = "Not enough space"
                             THEN [fileTable EXCEPT ![fileIndex + 1].size = 0]
                             ELSE fileTable
            /\ UNCHANGED <<memory, status>>
    /\ UNCHANGED <<memorySize, currentDir>>

\* write <name> <content>.  When the offset the allocator returns puts part
\* of the content outside the buffer, std::copy writes outside the
\* allocation: the process may die there (with or without the bytes that fit
\* already copied), or go on and update the entry.
Write(name, content) ==
    LET fileIndex == findFile(fileTable, name, currentDir)
        length    == Len(content)
        offset    == findFreeSpace(fileTable, memorySize, length)
        report    == WriteReport(fileTable, memorySize, currentDir, name, content)
    IN
    /\ Running
    /\ IF report = "Content written"
       THEN \/ /\ memory' = CopyInto(memory, offset, content)
               /\ fileTable' = [fileTable EXCEPT
                                  ![fileIndex + 1].offset = offset,
                                  ![fileIndex + 1].size = length]
               /\ out' = Out(report, <<>>)
               /\ UNCHANGED status
            \/ /\ OutOfBuffer(offset, length, memorySize)
               /\ memory' \in {memory, CopyInto(memory, offset, content)}
               /\ Crash("write")
               /\ UNCHANGED fileTable
       ELSE /\ out' = Out(report, <<>>)
            /\ UNCHANGED <<memory, fileTable, status>>
    /\ UNCHANGED <<memorySize, currentDir>>

\* The byte strings std::cout.write(memory.get() + offset, size) may print:
\* the buffer's bytes where the range is inside the buffer, anything where
\* it is not.
ReadRange(mem, cap, offset, size) ==
    {d \in [1..size -> GarbageBytes \cup {mem[i] : i \in 1..Len(mem)}] :
        \A i \in 1..size :
            IF offset + i - 1 < cap
            THEN d[i] = mem[offset + i]
            ELSE d[i] \in GarbageBytes}

\* What cat <name> may print in a state.
CatOutputs(t, mem, cap, dir, name) ==
    LET fileIndex == findFile(t, name, dir)
    IN  IF fileIndex # SIZE_MAX /\ ~At(t, fileIndex).isDirectory
        THEN IF At(t, fileIndex).size > 0
             THEN {Out("cat", d) :
                     d \in ReadRange(mem, cap, At(t, fileIndex).offset,
                                     At(t, fileIndex).size)}
             ELSE {Out("cat", <<>>)}
        ELSE {Out("File not found or is a directory", <<>>)}

\* Does cat <name> read outside the buffer?
CatOutOfBuffer(t, cap, dir, name) ==
    LET fileIndex == findFile(t, name, dir)
    IN  /\ fileIndex # SIZE_MAX
        /\ ~At(t, fileIndex).isDirectory
        /\ OutOfBuffer(At(t, fileIndex).offset, At(t, fileIndex).size, cap)

Cat(name) ==
    /\ Running
    /\ \/ /\ out' \in CatOutputs(fileTable, memory, memorySize, currentDir, name)
          /\ UNCHANGED status
       \/ /\ CatOutOfBuffer(fileTable, memorySize, currentDir, name)
          /\ Crash("cat")
    /\ UNCHANGED <<memory, memorySize, fileTable, currentDir>>

\* An emptiness test that does not count the directory itself.
isEmptyOthers(t, fileIndex) ==
    \A i \in Positions(t) \ {fileIndex} : At(t, i).parent # fileIndex

\* An emptiness test that looks only at the entries after the directory.
isEmptyLater(t, fileIndex) ==
    \A i \in Positions(t) : i > fileIndex => At(t, i).parent # fileIndex

\* The emptiness test of rm: no entry of the table has parent == fileIndex.
isEmpty(t, fileIndex) == \A i \in Positions(t) : At(t, i).parent # fileIndex

Rm(name) ==
    LET fileIndex == findFile(fileTable, name, currentDir)
    IN
    /\ Running
    /\ IF fileIndex # SIZE_MAX
       THEN IF ~At(fileTable, fileIndex).isDirectory
            THEN /\ fileTable' = Erase(fileTable, fileIndex)
                 /\ out' = Out("File removed", <<>>)
            ELSE IF isEmpty(fileTable, fileIndex)
                 THEN /\ fileTable' = Erase(fileTable, fileIndex)
                      /\ out' = Out("Directory removed", <<>>)
                 ELSE /\ out' = Out("Directory not empty", <<>>)
                      /\ UNCHANGED fileTable
       ELSE /\ out' = Out("File or directory not found", <<>>)
            /\ UNCHANGED fileTable
    /\ UNCHANGED <<memory, memorySize, currentDir, status>>

\* A cd that enters whatever entry the name resolves to, files included.
CdIntoFiles(path) ==
    /\ Running
    /\ path \notin {"/", ".."}
    /\ LET targetDir == findFile(fileTable, path, currentDir)
       IN  IF targetDir # SIZE_MAX
           THEN /\ currentDir' = targetDir
                /\ out' = Out("", <<>>)
           ELSE /\ out' = Out("Directory not found", <<>>)
                /\ UNCHANGED currentDir
    /\ UNCHANGED <<memory, memorySize, fileTable, status>>

\* A `cd ..` that goes to the root from everywhere.
CdUpToRoot(t, dir) == 0

\* Where `cd ..` goes from a directory inside the table.
CdUp(t, dir) == IF dir # 0 THEN At(t, dir).parent ELSE dir

\* cd <path>.  `cd ..` reads fileTable[currentDir]; when currentDir is past
\* the end of the vector that read is outside the vector's storage.
Cd(path) ==
    /\ Running
    /\ IF path = "/"
       THEN /\ currentDir' = 0
            /\ out' = Out("", <<>>)
            /\ UNCHANGED status
       ELSE IF path = ".."
       THEN IF currentDir # 0
            THEN IF InTable(fileTable, currentDir)
                 THEN /\ currentDir' = CdUp(fileTable, currentDir)
                      /\ out' = Out("", <<>>)
                      /\ UNCHANGED status
                 ELSE \/ /\ currentDir' \in GarbageIndex
                         /\ out' = Out("", <<>>)
                         /\ UNCHANGED status
                      \/ /\ Crash("cd")
                         /\ UNCHANGED currentDir
            ELSE /\ out' = Out("", <<>>)
                 /\ UNCHANGED <<currentDir, status>>
       ELSE LET targetDir == findFile(fileTable, path, currentDir)
            IN  IF targetDir # SIZE_MAX /\ At(fileTable, targetDir).isDirectory
                THEN /\ currentDir' = targetDir
                     /\ out' = Out("", <<>>)
                     /\ UNCHANGED status
                ELSE /\ out' = Out("Directory not found", <<>>)
                     /\ UNCHANGED <<currentDir, status>>
    /\ UNCHANGED <<memory, memorySize, fileTable>>


\* The walk of getFullPath from `current`, with the names collected so far.
\* It stops at position 0; it leaves the vector when a position is past its
\* end; after as many steps as the table has entries without reaching 0 it
\* has come back to a position it already visited and never stops.
RECURSIVE WalkUp(_, _, _, _)
WalkUp(t, current, parts, fuel) ==
    IF current = 0 THEN [end |-> "root", parts |-> parts]
    ELSE IF ~InTable(t, current) THEN [end |-> "outside", parts |-> parts]
    ELSE IF fuel = 0 THEN [end |-> "cycle", parts |-> parts]
    ELSE WalkUp(t, At(t, current).parent,
                Append(parts, At(t, current).name), fuel - 1)

\* result += "/" + *it over the parts in reverse order.
RECURSIVE JoinReversed(_)
JoinReversed(parts) ==
    IF parts = <<>> THEN ""
    ELSE JoinReversed(Tail(parts)) \o "/" \o Head(parts)

getFullPath(t, index) ==
    IF index = 0 THEN [end |-> "root", path |-> "/"]
    ELSE LET w == WalkUp(t, index, <<>>, Len(t))
             result == JoinReversed(w.parts)
         IN  [end |-> w.end, path |-> IF result = "" THEN "/" ELSE result]

\* The lines ls prints: the entries whose parent is the current directory,
\* in table order.
RECURSIVE Listing(_, _)
Listing(t, dir) ==
    IF t = <<>> THEN <<>>
    ELSE (IF Head(t).parent = dir
          THEN <<<<IF Head(t).isDirectory THEN "d" ELSE "f",
                   Head(t).size, Head(t).name>>>>
          ELSE <<>>) \o Listing(Tail(t), dir)

\* A command that prints getFullPath(currentDir) and then `rest`.  A walk
\* that leaves the vector reads outside its storage: the process may die or
\* print whatever it found.  A walk that cycles never returns.
PrintPath(label, rest) ==
    LET p == getFullPath(fileTable, currentDir)
    IN  CASE p.end = "root" ->
                /\ out' = Out(label, <<p.path>> \o rest)
                /\ UNCHANGED status
          [] p.end = "outside" ->
                \/ /\ out' = Out(label, <<"?">> \o rest)
                   /\ UNCHANGED status
                \/ Crash(label)
          [] p.end = "cycle" ->
                /\ status' = "hung"
                /\ out' = Out("hung", <<>>)

Ls ==
    /\ Running
    /\ PrintPath("Contents of", Listing(fileTable, currentDir))
    /\ UNCHANGED <<memory, memorySize, fileTable, currentDir>>

Pwd ==
    /\ Running
    /\ PrintPath("pwd", <<>>)
    /\ UNCHANGED <<memory, memorySize, fileTable, currentDir>>

\* formatSize: the value in hundredths and the unit.  The division by 1024
\* is exact in the code (a double); here it is rounded down to hundredths,
\* which differs from the code only for sizes of 1024 bytes and more.
Units == <<"B", "KB", "MB", "GB", "TB">>
RECURSIVE FormatLoop(_, _)
FormatLoop(size100, unit) ==
    IF size100 >= 1024 * 100 /\ unit < 4
    THEN FormatLoop(size100 \div 1024, unit + 1)
    ELSE <<size100, Units[unit + 1]>>
formatSize(bytes) == FormatLoop(bytes * 100, 0)

\* A resize that records the new size before it allocates.
ResizeSizeFirst(sizeStr) ==
    LET newSize == parseSize(sizeStr)
    IN
    /\ Running
    /\ memorySize' = newSize
    /\ \/ /\ memory' = NewBuffer(memory, memorySize, newSize)
          /\ out' = Out("Memory successfully resized to", <<formatSize(newSize)>>)
       \/ /\ out' = Out("Failed to resize memory. Current size remains at",
                        <<formatSize(newSize)>>)
          /\ UNCHANGED memory
    /\ UNCHANGED <<fileTable, currentDir, status>>

\* reallocateMemory and the resize command.  make_unique may throw
\* std::bad_alloc, which the function catches.
Resize(sizeStr) ==
    LET newSize == parseSize(sizeStr)
    IN
    /\ Running
    /\ \/ /\ memory' = NewBuffer(memory, memorySize, newSize)
          /\ memorySize' = newSize
          /\ out' = Out("Memory successfully resized to", <<formatSize(newSize)>>)
       \/ /\ out' = Out("Failed to resize memory. Current size remains at",
                        <<formatSize(memorySize)>>)
          /\ UNCHANGED <<memory, memorySize>>
    /\ UNCHANGED <<fileTable, currentDir, status>>

Memsize ==
    /\ Running
    /\ out' = Out("Current memory allocation:", <<formatSize(memorySize)>>)
    /\ UNCHANGED <<memory, memorySize, fileTable, currentDir, status>>

\* What peek <offset> prints in a state.
PeekOutput(mem, cap, offset) ==
    IF offset < cap
    THEN Out("Memory at offset", <<offset, mem[offset + 1]>>)
    ELSE Out("Invalid offset", <<>>)

Peek(typed) ==
    /\ Running
    /\ out' = PeekOutput(memory, memorySize, ReadSize(typed))
    /\ UNCHANGED <<memory, memorySize, fileTable, currentDir, status>>

\* A poke that also accepts the offset one past the last byte.
PokeInclusive(typedOffset, typed) ==
    LET offset == ReadSize(typedOffset)
        value  == ReadInt(typed)
    IN
    /\ Running
    /\ IF offset <= memorySize
       THEN /\ memory' = [i \in 1..Len(memory) |->
                             IF i = offset + 1 THEN ToByte(value) ELSE memory[i]]
            /\ out' = Out("Written value", <<value, offset>>)
       ELSE /\ out' = Out("Invalid offset", <<>>)
            /\ UNCHANGED memory
    /\ UNCHANGED <<memorySize, fileTable, currentDir, status>>

Poke(typedOffset, typed) ==
    LET offset == ReadSize(typedOffset)
        value  == ReadInt(typed)
    IN
    /\ Running
    /\ IF offset < memorySize
       THEN /\ memory' = [memory EXCEPT ![offset + 1] = ToByte(value)]
            /\ out' = Out("Written value", <<value, offset>>)
       ELSE /\ out' = Out("Invalid offset", <<>>)
            /\ UNCHANGED memory
    /\ UNCHANGED <<memorySize, fileTable, currentDir, status>>

\* usedSpace of df: the sizes of the file entries, added as size_t.
RECURSIVE usedSpace(_)
usedSpace(t) ==
    IF t = <<>> THEN 0
    ELSE Add(IF ~Head(t).isDirectory THEN Head(t).size ELSE 0, usedSpace(Tail(t)))

Df ==
    /\ Running
    /\ out' = Out("df", <<formatSize(memorySize), formatSize(usedSpace(fileTable)),
                          formatSize(Sub(memorySize, usedSpace(fileTable)))>>)
    /\ UNCHANGED <<memory, memorySize, fileTable, currentDir, status>>

Exit ==
    /\ Running
    /\ status' = "exited"
    /\ out' = Out("", <<>>)
    /\ UNCHANGED <<memory, memorySize, fileTable, currentDir>>

\* ------------------------------------------------------ the specifications
Paths == Names \cup {"/", ".."}

\* The console with every command.
Next ==
    \/ \E n \in Names : Mkdir(n, MaxEntries)
    \/ \E n \in Names : Touch(n, MaxEntries)
    \/ \E n \in Names, c \in Contents : Write(n, c)
    \/ \E n \in Names : Cat(n)
    \/ \E n \in Names : Rm(n)
    \/ \E p \in Paths : Cd(p)
    \/ Ls
    \/ Pwd
    \/ \E z \in SizeStrings : Resize(z)
    \/ Memsize
    \/ \E o \in Offsets : Peek(o)
    \/ \E o \in Offsets, v \in PokeValues : Poke(o, v)
    \/ Df
    \/ Exit

Spec == Init /\ [][Next]_vars

\* The namespace commands alone, on a table one entry longer: none of them
\* reads or writes the buffer or an entry's offset or size.
NsEntries == MaxEntries + 1

NextNs ==
    \/ \E n \in Names : Mkdir(n, NsEntries)
    \/ \E n \in Names : Touch(n, NsEntries)
    \/ \E n \in Names : Rm(n)
    \/ \E p \in Paths : Cd(p)
    \/ Ls
    \/ Pwd
    \/ Exit

SpecNs == Init /\ [][NextNs]_vars

\* ------------------------------------------------------------- properties
\* The file entries of a table that hold data.
LiveFiles(t) == {i \in Positions(t) : ~At(t, i).isDirectory /\ At(t, i).size > 0}
RangeEnd(e) == e.offset + e.size
Disjoint(e, f) == RangeEnd(e) <= f.offset \/ RangeEnd(f) <= e.offset

\* C1: in every reachable state any two distinct file entries that both
\* have size > 0 have disjoint byte ranges [offset, offset + size).
C1_RangesDisjoint ==
    \A i, j \in LiveFiles(fileTable) :
        i # j => Disjoint(At(fileTable, i), At(fileTable, j))

\* Two files hold data next to each other, the one created first placed
\* after the other one: the allocator had to order the ranges.
C1_Witness ==
    \E i, j \in LiveFiles(fileTable) :
        /\ i < j
        /\ At(fileTable, j).offset < At(fileTable, i).offset
        /\ RangeEnd(At(fileTable, j)) = At(fileTable, i).offset

\* C2: whenever write prints 'Content written' for content of length L, the
\* bytes go to [offset, offset + L) with dataStart <= offset and
\* offset + L <= capacity: every byte index write copies to lies in
\* [dataStart, capacity).
C2_WriteInsideBuffer ==
    [][\A n \in Names, c \in Contents :
          (out'.msg = "Content written" /\ Write(n, c)) =>
              LET e == At(fileTable', findFile(fileTable, n, currentDir))
              IN  \A k \in e.offset..(e.offset + Len(c) - 1) :
                      dataStart <= k /\ k < memorySize]_vars

\* C3: in every reachable state every file entry with size > 0 satisfies
\* offset + size <= capacity.
C3_RangesInsideBuffer ==
    \A i \in LiveFiles(fileTable) : RangeEnd(At(fileTable, i)) <= memorySize

\* C4: cat of a file whose range extends past the capacity is reported as an
\* error, and no cat reads a byte at an index >= capacity.
C4_CatInsideBuffer ==
    [][\A n \in Names :
          (Cat(n) /\ CatOutOfBuffer(fileTable, memorySize, currentDir, n)) =>
              (status' = "running" /\ out'.msg # "cat")]_vars

\* C5: if write f c succeeds, cat f issued immediately afterwards prints
\* exactly the bytes of c, and the entry's size is length(c).
C5_WriteThenCat ==
    [][\A n \in Names, c \in Contents :
          (out'.msg = "Content written" /\ Write(n, c)) =>
              /\ CatOutputs(fileTable', memory', memorySize', currentDir', n)
                    = {Out("cat", c)}
              /\ ~CatOutOfBuffer(fileTable', memorySize', currentDir', n)
              /\ At(fileTable', findFile(fileTable, n, currentDir)).size = Len(c)]_vars

\* Do two entries look the same to the user (same name, same kind)?
SameEntry(e, f) == e.name = f.name /\ e.isDirectory = f.isDirectory

\* C6: after any successful rm, for every remaining entry e the entry
\* designated by e.parent is the same entry (same name and kind) that
\* e.parent designated before the rm, and currentDir designates the same
\* directory as before.
C6_StableIdentity ==
    [][\A n \in Names :
          (Rm(n) /\ fileTable' # fileTable) =>
              LET removed == findFile(fileTable, n, currentDir)
                  NewPos(j) == IF j < removed THEN j ELSE j - 1
              IN  /\ \A j \in Positions(fileTable) \ {removed} :
                        LET before == At(fileTable, j).parent
                            after  == At(fileTable', NewPos(j)).parent
                        IN  InTable(fileTable, before) =>
                              /\ InTable(fileTable', after)
                              /\ SameEntry(At(fileTable', after),
                                           At(fileTable, before))
                  /\ InTable(fileTable, currentDir) =>
                        /\ InTable(fileTable', currentDir')
                        /\ SameEntry(At(fileTable', currentDir'),
                                     At(fileTable, currentDir))]_vars

\* C7: in every reachable state entry 0 of the file table is the root, a
\* directory with empty name whose parent is 0, and no rm command, with any
\* argument and from any current directory, removes it.
RootIntact ==
    /\ Len(fileTable) >= 1
    /\ At(fileTable, 0) = FileEntry("", 0, 0, TRUE, 0)

C7_RootStays ==
    /\ []RootIntact
    /\ [][\A n \in Names :
             (Rm(n) /\ findFile(fileTable, n, currentDir) = 0) =>
                 fileTable' = fileTable]_vars

\* rm without a name was typed in the root directory of a table that holds
\* nothing but the root: the command resolved to the root and refused.
C7_Witness ==
    /\ out.msg = "Directory not empty"
    /\ currentDir = 0
    /\ Len(fileTable) = 1

\* C8: in every reachable state no two distinct entries of the file table
\* have both the same name and the same parent value.
C8_UniqueNames ==
    \A i, j \in Positions(fileTable) :
        (/\ At(fileTable, i).name = At(fileTable, j).name
         /\ At(fileTable, i).parent = At(fileTable, j).parent) => i = j

\* One name is in use under two parents, and an rm has moved an entry onto
\* the position its own parent field names.
C8_Witness ==
    /\ \E i, j \in Positions(fileTable) :
          /\ i # j
          /\ At(fileTable, i).name = At(fileTable, j).name
    /\ \E k \in Positions(fileTable) : k # 0 /\ At(fileTable, k).parent = k

\* C9: rm of a directory entry at table position i removes it only if no
\* entry in the table has parent == i; otherwise rm reports 'Directory not
\* empty' and leaves the file table, currentDir and the backing store
\* unchanged.
C9_RmDirectory ==
    [][\A n \in Names :
          LET i == findFile(fileTable, n, currentDir)
              referenced == \E j \in Positions(fileTable) : At(fileTable, j).parent = i
          IN  (Rm(n) /\ i # SIZE_MAX /\ At(fileTable, i).isDirectory) =>
                  /\ fileTable' # fileTable => ~referenced
                  /\ referenced =>
                        /\ out'.msg = "Directory not empty"
                        /\ UNCHANGED <<fileTable, currentDir, memory, memorySize>>]_vars

\* rm has just refused a directory other than the root that has a child.
C9_Witness ==
    /\ out.msg = "Directory not empty"
    /\ \E i \in Positions(fileTable) \ {0} :
          /\ At(fileTable, i).isDirectory
          /\ At(fileTable, i).parent = currentDir
          /\ \E j \in Positions(fileTable) : At(fileTable, j).parent = i

\* C10: after a successful resize from capacity C to capacity N, capacity
\* equals N, byte i equals its pre-resize value for every i < min(C, N), and
\* byte i is 0 for every i with min(C, N) <= i < N.
C10_ResizePreserves ==
    [][\A z \in SizeStrings :
          (out'.msg = "Memory successfully resized to" /\ Resize(z)) =>
              LET C == memorySize
                  N == parseSize(z)
              IN  /\ memorySize' = N
                  /\ Len(memory') = N
                  /\ \A i \in 0..(Min(C, N) - 1) : memory'[i + 1] = memory[i + 1]
                  /\ \A i \in Min(C, N)..(N - 1) : memory'[i + 1] = 0]_vars

\* A resize has grown the buffer after a shrink: a byte of the kept prefix
\* is still there, and a file written before the shrink now reads as zeros.
C10_Witness ==
    /\ out.msg = "Memory successfully resized to"
    /\ \E k \in 1..Len(memory) :
          /\ memory[k] # 0
          /\ \E i \in LiveFiles(fileTable) :
                /\ At(fileTable, i).offset >= k
                /\ RangeEnd(At(fileTable, i)) <= memorySize
                /\ \A b \in At(fileTable, i).offset..(RangeEnd(At(fileTable, i)) - 1) :
                      memory[b + 1] = 0

\* C11: when the allocation inside resize fails, resize reports the failure
\* and the capacity, every byte of the backing store, the file table and
\* currentDir are exactly as before the command.
C11_ResizeFailureAtomic ==
    [][\A z \in SizeStrings :
          (out'.msg = "Failed to resize memory. Current size remains at"
              /\ Resize(z)) =>
                  /\ memorySize' = memorySize
                  /\ memory' = memory
                  /\ fileTable' = fileTable
                  /\ currentDir' = currentDir
                  /\ out'.data = <<formatSize(memorySize)>>]_vars

\* A resize to another size has failed while a file holds content.
C11_Witness ==
    /\ out.msg = "Failed to resize memory. Current size remains at"
    /\ memorySize = InitialSize
    /\ LiveFiles(fileTable) # {}
    /\ \E k \in 1..Len(memory) : memory[k] # 0

\* C12: write <name> <content> prints "File not found or is a directory"
\* when the name does not resolve under the current directory or resolves
\* to a directory, and "Not enough space" when the allocator reports no gap
\* of the content's length; in both cases the file table, currentDir, the
\* capacity and every byte of the backing store are unchanged.
WriteLines ==
    {"Content written", "Not enough space", "File not found or is a directory",
     "crashed"}

C12_WriteFailures ==
    [][out'.msg \in WriteLines =>
          \A n \in Names, c \in Contents :
              LET i      == findFile(fileTable, n, currentDir)
                  noFile == i = SIZE_MAX \/ At(fileTable, i).isDirectory
                  noGap  == findFreeSpace(fileTable, memorySize, Len(c)) = SIZE_MAX
              IN  ((noFile \/ noGap) /\ Write(n, c)) =>
                      /\ out'.msg = IF noFile
                                     THEN "File not found or is a directory"
                                     ELSE "Not enough space"
                      /\ fileTable' = fileTable
                      /\ currentDir' = currentDir
                      /\ memorySize' = memorySize
                      /\ memory' = memory]_vars

\* A write to an existing file was refused for lack of space while another
\* file holds content.
C12_Witness ==
    /\ out.msg = "Not enough space"
    /\ \E i \in LiveFiles(fileTable) : At(fileTable, i).parent = currentDir
    /\ \E k \in 1..Len(memory) : memory[k] # 0

\* The effect the claim gives mkdir and touch of name n: refused with its
\* line and the table untouched when an entry named n has parent currentDir,
\* otherwise one entry appended at the end and nothing else changed.
CreatesExactly(n, isDir, created, refused) ==
    LET taken == \E i \in Positions(fileTable) :
                     At(fileTable, i).name = n /\ At(fileTable, i).parent = currentDir
    IN  /\ IF taken
           THEN out'.msg = refused /\ fileTable' = fileTable
           ELSE /\ out'.msg = created
                /\ Len(fileTable') = Len(fileTable) + 1
                /\ SubSeq(fileTable', 1, Len(fileTable)) = fileTable
                /\ fileTable'[Len(fileTable')] =
                       [name |-> n, offset |-> 0, size |-> 0,
                        isDirectory |-> isDir, parent |-> currentDir]
        /\ currentDir' = currentDir
        /\ memory' = memory
        /\ memorySize' = memorySize
        /\ status' = status

\* C13: mkdir (touch) of a name succeeds exactly when no entry with that
\* name has parent = currentDir; on success exactly one entry (name, offset
\* 0, size 0, directory resp. file, parent currentDir) is appended at the
\* end of the table and nothing else changes; on collision it prints "Name
\* already exists" (resp. "File already exists") and the table is unchanged.
C13_CreateExactly ==
    [][\A n \in Names :
          /\ Mkdir(n, NsEntries) =>
                 CreatesExactly(n, TRUE, "Directory created", "Name already exists")
          /\ Touch(n, NsEntries) =>
                 CreatesExactly(n, FALSE, "File created", "File already exists")]_vars

\* The same name has just been created under a second directory.
C13_Witness ==
    /\ out.msg \in {"Directory created", "File created"}
    /\ \E i \in Positions(fileTable) :
           LET last == Len(fileTable) - 1
           IN  /\ i < last
               /\ At(fileTable, i).name = At(fileTable, last).name
               /\ At(fileTable, i).parent # At(fileTable, last).parent
               /\ At(fileTable, last).parent = currentDir

\* C14: for every offset o < capacity and every integer v, poke o v followed
\* immediately by peek o reports v mod 256, and poke changes no byte other
\* than byte o and no part of the file table.
C14_PokeThenPeek ==
    [][\A o \in Offsets, v \in PokeValues :
          (o < memorySize /\ Poke(o, v)) =>
              /\ PeekOutput(memory', memorySize', o) =
                     Out("Memory at offset", <<o, v % 256>>)
              /\ Len(memory') = Len(memory)
              /\ \A k \in 1..Len(memory) : k # o + 1 => memory'[k] = memory[k]
              /\ fileTable' = fileTable]_vars

\* C15: peek o and poke o v with o >= capacity print "Invalid offset" and
\* leave the whole state unchanged; the bound is the capacity of the moment,
\* so an offset that was valid before a shrinking resize is refused after it.
C15_InvalidOffset ==
    [][\A o \in Offsets :
          (o >= memorySize /\ (Peek(o) \/ \E v \in PokeValues : Poke(o, v))) =>
              /\ out' = Out("Invalid offset", <<>>)
              /\ memory' = memory
              /\ memorySize' = memorySize
              /\ fileTable' = fileTable
              /\ currentDir' = currentDir
              /\ status' = status]_vars

\* An offset has been refused after the buffer was shrunk to a size that
\* still leaves some offsets valid.
C15_Witness ==
    /\ out.msg = "Invalid offset"
    /\ 0 < memorySize
    /\ memorySize < InitialSize

\* C16: after rm of a file of the current directory succeeds, the table is
\* the previous table without that one entry (every other entry keeps its
\* fields and its relative order), no byte of the backing store changes,
\* and a following cat or write of that name in the same directory prints
\* "File not found or is a directory".
C16_RmFile ==
    [][\A n \in Names :
          (out'.msg = "File removed" /\ Rm(n)) =>
              LET i       == findFile(fileTable, n, currentDir)
                  missing == "File not found or is a directory"
              IN  /\ Len(fileTable') = Len(fileTable) - 1
                  /\ \A j \in 0..(i - 1) : At(fileTable', j) = At(fileTable, j)
                  /\ \A j \in (i + 1)..(Len(fileTable) - 1) :
                         At(fileTable', j - 1) = At(fileTable, j)
                  /\ memory' = memory
                  /\ memorySize' = memorySize
                  /\ currentDir' = currentDir
                  /\ CatOutputs(fileTable', memory', memorySize', currentDir', n)
                         = {Out(missing, <<>>)}
                  /\ \A c \in Contents :
                         WriteReport(fileTable', memorySize', currentDir', n, c)
                             = missing]_vars

\* A file has been removed, another entry is left after the root, and the
\* buffer still holds bytes that were written.
C16_Witness ==
    /\ out.msg = "File removed"
    /\ Len(fileTable) >= 2
    /\ LiveFiles(fileTable) = {}
    /\ \E k \in 1..Len(memory) : memory[k] = 2

\* C17: cd .. at the root leaves currentDir and all other state unchanged;
\* from a non-root directory d that was entered by cd <name> from directory
\* p, cd .. sets currentDir back to p, pwd in d prints p's path extended by
\* the segment "/d" (a root p contributes no text before the segment, as in
\* "/d"), and pwd after cd .. prints p's path again.
C17_CdUp ==
    [][/\ (currentDir = 0 /\ Cd("..")) =>
              /\ currentDir' = 0
              /\ fileTable' = fileTable
              /\ memory' = memory
              /\ memorySize' = memorySize
              /\ status' = status
       /\ (currentDir # 0 /\ InTable(fileTable, currentDir) /\ Cd("..")) =>
              currentDir' = At(fileTable, currentDir).parent
       /\ \A n \in Names :
              (out'.msg = "" /\ currentDir' # 0 /\ Cd(n)) =>
                  LET p      == currentDir
                      d      == currentDir'
                      pPath  == getFullPath(fileTable, p)
                      dPath  == getFullPath(fileTable', d)
                      back   == CdUp(fileTable', d)
                  IN  /\ InTable(fileTable', d)
                      /\ back = p
                      /\ getFullPath(fileTable', back) = pPath
                      /\ pPath.end = "root" =>
                             dPath = [end |-> "root",
                                      path |-> (IF p = 0 THEN "" ELSE pPath.path)
                                                  \o "/" \o n]]_vars

\* A directory inside another non-root directory has been entered.
C17_Witness ==
    /\ out.msg = ""
    /\ getFullPath(fileTable, currentDir) = [end |-> "root", path |-> "/a/b"]

\* The sum of size over the file entries of a table, as a plain integer.
RECURSIVE FileSizeSum(_)
FileSizeSum(t) ==
    IF t = <<>> THEN 0
    ELSE (IF Head(t).isDirectory THEN 0 ELSE Head(t).size) + FileSizeSum(Tail(t))

\* C18: whenever df runs, the used figure it prints is the sum of size over
\* the file entries of the table, the free figure is capacity - used, and
\* used does not exceed the capacity (the subtraction stays at or above 0).
C18_DfAccounting ==
    [][Df =>
          LET used == FileSizeSum(fileTable)
          IN  /\ used <= memorySize
              /\ out'.data = <<formatSize(memorySize), formatSize(used),
                               formatSize(memorySize - used)>>]_vars

\* The reference first fit of the claim: the lowest offset o >= dataStart
\* such that [o, o + L) lies within [dataStart, cap) and meets no range of a
\* file entry with size > 0; SIZE_MAX when there is none.
FirstFit(t, cap, L) ==
    LET Meets(o, i) == /\ o < At(t, i).offset + At(t, i).size
                       /\ At(t, i).offset < o + L
        Fits(o)     == /\ o + L <= cap
                       /\ \A i \in LiveFiles(t) : ~Meets(o, i)
        fitting     == {o \in dataStart..cap : Fits(o)}
    IN  IF fitting = {} THEN SIZE_MAX
        ELSE CHOOSE o \in fitting : \A q \in fitting : o <= q

\* C19: for every reachable table and capacity and every length L,
\* findFreeSpace(L) returns what the reference first fit returns, also when
\* the capacity is below dataStart or below the end of the last range.
C19_FirstFit ==
    \A L \in 0..MaxLen :
        findFreeSpace(fileTable, memorySize, L) = FirstFit(fileTable, memorySize, L)

\* C20: a successful write of non-empty content to a file that already has
\* size > 0 places the content in a range disjoint from the file's previous
\* range, and such a write prints "Not enough space" whenever no gap outside
\* the occupied ranges, the file's old range among them, fits the content.
C20_RewriteElsewhere ==
    [][out'.msg \in WriteLines =>
          \A n \in Names, c \in Contents \ {<<>>} :
              LET i == findFile(fileTable, n, currentDir)
              IN  (/\ i # SIZE_MAX
                   /\ ~At(fileTable, i).isDirectory
                   /\ At(fileTable, i).size > 0
                   /\ Write(n, c)) =>
                      LET old == At(fileTable, i)
                          new == At(fileTable', i)
                      IN  /\ out'.msg = "Content written" =>
                                 \/ new.offset + new.size <= old.offset
                                 \/ old.offset + old.size <= new.offset
                          /\ FirstFit(fileTable, memorySize, Len(c)) = SIZE_MAX =>
                                 out'.msg = "Not enough space"]_vars

\* C21: cd <name>, for a name other than "/" and "..", sets currentDir to
\* the entry with that name and parent = currentDir only when that entry
\* exists and is a directory; when the name is absent or names a file it
\* prints "Directory not found" and currentDir is unchanged.  cd / always
\* sets currentDir to the root.  No cd changes the file table or the
\* backing store.
C21_CdResolves ==
    [][/\ \A n \in Names :
              Cd(n) =>
                  LET dirs == {i \in Positions(fileTable) :
                                  /\ At(fileTable, i).name = n
                                  /\ At(fileTable, i).parent = currentDir
                                  /\ At(fileTable, i).isDirectory}
                  IN  IF dirs # {}
                      THEN currentDir' \in dirs /\ out'.msg # "Directory not found"
                      ELSE currentDir' = currentDir /\ out'.msg = "Directory not found"
       /\ Cd("/") => currentDir' = 0
       /\ \A p \in Paths :
              Cd(p) => /\ fileTable' = fileTable
                       /\ memory' = memory
                       /\ memorySize' = memorySize]_vars

\* cd has just refused a name that a file of a non-root current directory
\* carries.
C21_Witness ==
    /\ out.msg = "Directory not found"
    /\ currentDir # 0
    /\ \E i \in Positions(fileTable) :
           ~At(fileTable, i).isDirectory /\ At(fileTable, i).parent = currentDir

\* C22: in every reachable state the namespace is a rooted tree: every
\* entry's parent value is a valid table index that designates a directory
\* entry, no non-root entry is its own parent, and following parent links
\* from any entry reaches entry 0.
C22_RootedTree ==
    \A i \in Positions(fileTable) :
        LET parent == At(fileTable, i).parent
        IN  /\ InTable(fileTable, parent)
            /\ At(fileTable, parent).isDirectory
            /\ i # 0 => parent # i
            /\ WalkUp(fileTable, i, <<>>, Len(fileTable)).end = "root"

\* C23: in every reachable state pwd and ls terminate: the parent-link walk
\* of getFullPath(currentDir) reaches index 0 after at most as many steps as
\* the table has entries and never revisits an entry.
C23_WalkReachesRoot ==
    WalkUp(fileTable, currentDir, <<>>, Len(fileTable)).end = "root"

\* C24: in every reachable state currentDir is strictly less than the
\* number of entries of the file table and designates a directory entry, so
\* that fileTable[currentDir] is never read out of range.
C24_CurrentDirValid ==
    /\ currentDir < Len(fileTable)
    /\ fileTable[currentDir + 1].isDirectory

====
